---- MODULE Spec2Model ----
(***************************************************************************)
(* Model of openblas-build/src/check.rs: LinkInfo::parse (linker flags),   *)
(* MakeConf::new (Makefile.conf reader) and LibDetail (nm / objdump        *)
(* output classification and the has_* predicates).                        *)
(*                                                                         *)
(* A Rust string is a sequence of one-character strings; Rust's str        *)
(* ordering (bytewise) is the lexicographic order of the characters'       *)
(* positions in Alphabet, which lists them in ASCII order.                 *)
(***************************************************************************)
EXTENDS Integers, Sequences, FiniteSets, TLC

\* ------------------------------------------------------------------ bounds
MaxEntries == 3      \* tokens joined into a linker-flag string
MaxConfLines == 3    \* lines of a Makefile.conf
MaxNmLines == 3      \* lines of `nm -g` output
MaxObjLines == 2     \* lines of `objdump -p` output

\* ----------------------------------------------------------------- strings
Alphabet ==
  <<"\t", " ", "-", ".", "/", "0", "1", "2", "6", "=", "A", "B", "C", "D", "E",
    "F", "I", "K", "L", "M", "N", "O", "P", "R", "S", "T", "U", "W", "X", "_",
    "a", "b", "c", "d", "e", "f", "g", "i", "l", "m", "o", "r", "s", "v", "x",
    "y">>

Code(c) == CHOOSE i \in 1..Len(Alphabet) : Alphabet[i] = c

Min(S) == CHOOSE x \in S : \A y \in S : x <= y

\* Ord for str: bytewise lexicographic, a proper prefix first.
StrLe(a, b) ==
  LET n == IF Len(a) <= Len(b) THEN Len(a) ELSE Len(b)
      diff == {i \in 1..n : a[i] # b[i]}
  IN  IF diff = {} THEN Len(a) <= Len(b)
      ELSE Code(a[Min(diff)]) < Code(b[Min(diff)])

Drop(s, n) == SubSeq(s, n + 1, Len(s))

\* str::starts_with
StartsWith(s, p) == Len(s) >= Len(p) /\ SubSeq(s, 1, Len(p)) = p

\* str::trim_start_matches: the prefix is removed repeatedly.
RECURSIVE TrimStartMatches(_, _)
TrimStartMatches(s, p) ==
  IF p # <<>> /\ StartsWith(s, p) THEN TrimStartMatches(Drop(s, Len(p)), p)
  ELSE s

IsWhitespace(c) == c \in {" ", "\t"}

RECURSIVE TrimStart(_)
TrimStart(s) ==
  IF s # <<>> /\ IsWhitespace(Head(s)) THEN TrimStart(Tail(s)) ELSE s

RECURSIVE TrimEnd(_)
TrimEnd(s) ==
  IF s # <<>> /\ IsWhitespace(s[Len(s)]) THEN TrimEnd(SubSeq(s, 1, Len(s) - 1))
  ELSE s

\* str::trim
Trim(s) == TrimEnd(TrimStart(s))

\* str::split on a one-character pattern: n separators give n + 1 parts,
\* empty parts included ("" splits into [""]).
RECURSIVE Split(_, _)
Split(s, sep) ==
  LET at == {i \in 1..Len(s) : s[i] = sep}
  IN  IF at = {} THEN <<s>>
      ELSE <<SubSeq(s, 1, Min(at) - 1)>> \o Split(Drop(s, Min(at)), sep)

RECURSIVE Join(_, _)
Join(parts, sep) ==
  IF parts = <<>> THEN <<>>
  ELSE IF Len(parts) = 1 THEN parts[1]
  ELSE parts[1] \o <<sep>> \o Join(Tail(parts), sep)

SeqsUpTo(S, n) == UNION {[1..k -> S] : k \in 0..n}

\* ------------------------------------------------------------- filesystem
Dir_ab == <<"/", "a", "/", "b">>       \* "/a/b"
Dir_adotb == <<"/", "a", ".", "b">>    \* "/a.b"
Link_s == <<"/", "s">>                 \* "/s", a symbolic link when present
NoLink == <<>>
Dirs == {Dir_ab, Dir_adotb}

\* A filesystem state: the directories present, the directory "/s" links to
\* (if it is there), and the existing paths on which canonicalize reports an
\* error.
FileSystems ==
  {fs \in [dirs : SUBSET Dirs, link : {Dir_ab, NoLink}, canon_err : SUBSET {Link_s}] :
     /\ fs.link # NoLink => fs.link \in fs.dirs
     /\ fs.link = NoLink => fs.canon_err = {}}

\* Path::exists
PathExists(fs, path) ==
  \/ path \in fs.dirs
  \/ path = Link_s /\ fs.link # NoLink

\* Path::canonicalize on an existing path: symbolic links resolved.
Canonicalize(fs, path) == IF path = Link_s THEN fs.link ELSE path

\* Ord for Path: component by component, each component bytewise.
Components(path) == SelectSeq(Split(path, "/"), LAMBDA c : c # <<>>)

PathLe(a, b) ==
  LET ca == Components(a)
      cb == Components(b)
      n == IF Len(ca) <= Len(cb) THEN Len(ca) ELSE Len(cb)
      diff == {i \in 1..n : ca[i] # cb[i]}
  IN  IF diff = {} THEN Len(ca) <= Len(cb)
      ELSE StrLe(ca[Min(diff)], cb[Min(diff)])

\* ------------------------------------------------------- LinkInfo::parse
DashL == <<"-", "L">>
DashLower == <<"-", "l">>

RECURSIVE SortedStrings(_)
SortedStrings(set) ==
  IF set = {} THEN <<>>
  ELSE LET m == CHOOSE x \in set : \A y \in set : StrLe(x, y)
       IN  <<m>> \o SortedStrings(set \ {m})

RECURSIVE SortedPaths(_)
SortedPaths(set) ==
  IF set = {} THEN <<>>
  ELSE LET m == CHOOSE x \in set : \A y \in set : PathLe(x, y)
       IN  <<m>> \o SortedPaths(set \ {m})

\* Mutant: the set is collected into a Vec and not put in ascending order.
RECURSIVE as_sorted_vec_libs_descending(_)
as_sorted_vec_libs_descending(set) ==
  IF set = {} THEN <<>>
  ELSE LET m == CHOOSE x \in set : \A y \in set : StrLe(y, x)
       IN  <<m>> \o as_sorted_vec_libs_descending(set \ {m})

\* as_sorted_vec at its two uses: HashSet<String> and HashSet<PathBuf>.
as_sorted_vec_libs(set) == SortedStrings(set)
as_sorted_vec_paths(set) == SortedPaths(set)

\* Mutant: the `if !path.exists() { continue; }` test is missing.
parse_entry_no_exists_test(acc, entry, fs) ==
  LET path == TrimStartMatches(entry, DashL)
      sp   == IF StartsWith(entry, DashL)
              THEN acc.search_paths \cup {Canonicalize(fs, path)}
              ELSE acc.search_paths
      lb   == IF StartsWith(entry, DashLower)
              THEN acc.libs \cup {TrimStartMatches(entry, DashLower)}
              ELSE acc.libs
  IN  [search_paths |-> sp, libs |-> lb, panicked |-> FALSE]

\* One pass of the loop body over `entry`; acc holds the two HashSets and
\* whether `expect` has panicked.
parse_entry(acc, entry, fs) ==
  LET path == TrimStartMatches(entry, DashL)
      skip == StartsWith(entry, DashL) /\ ~PathExists(fs, path)
      fail == StartsWith(entry, DashL) /\ PathExists(fs, path) /\ path \in fs.canon_err
      sp   == IF StartsWith(entry, DashL) /\ ~skip /\ ~fail
              THEN acc.search_paths \cup {Canonicalize(fs, path)}
              ELSE acc.search_paths
      lb   == IF ~skip /\ ~fail /\ StartsWith(entry, DashLower)
              THEN acc.libs \cup {TrimStartMatches(entry, DashLower)}
              ELSE acc.libs
  IN  [search_paths |-> sp, libs |-> lb, panicked |-> fail]

EmptyAcc == [search_paths |-> {}, libs |-> {}, panicked |-> FALSE]

LinkInfoOf(acc) ==
  [search_paths |-> as_sorted_vec_paths(acc.search_paths),
   libs |-> as_sorted_vec_libs(acc.libs)]

\* LinkInfo::default()
DefaultLinkInfo == [search_paths |-> <<>>, libs |-> <<>>]

RECURSIVE parse_loop(_, _, _)
parse_loop(acc, entries, fs) ==
  IF entries = <<>> \/ acc.panicked THEN acc
  ELSE parse_loop(parse_entry(acc, Head(entries), fs), Tail(entries), fs)

\* LinkInfo::parse as a function of the line and the filesystem: whether
\* `expect` panicked on a failed canonicalize and, if not, the LinkInfo.
LinkInfo_parse(line, fs) ==
  LET acc == parse_loop(EmptyAcc, Split(line, " "), fs)
  IN  [panicked |-> acc.panicked,
       info |-> IF acc.panicked THEN DefaultLinkInfo ELSE LinkInfoOf(acc)]

\* Inputs: flag strings of up to MaxEntries tokens joined by single spaces.
Tokens ==
  { <<"-", "l", "f", "o", "o">>,             \* "-lfoo"
    <<"-", "l", "b", "a", "r">>,             \* "-lbar"
    <<"-", "l", "-", "l", "f", "o", "o">>,   \* "-l-lfoo"
    <<"-", "L", "/", "a", "/", "b">>,        \* "-L/a/b"
    <<"-", "L", "/", "a", ".", "b">>,        \* "-L/a.b"
    <<"-", "L", "/", "s">>,                  \* "-L/s"
    <<"-", "L", "-", "L", "/", "s">>,        \* "-L-L/s"
    <<"-", "O">> }                           \* "-O"

FlagLines == {Join(ts, " ") : ts \in SeqsUpTo(Tokens, MaxEntries)}


\* ---------------------------------------------------------- MakeConf::new
OSNAME == <<"O", "S", "N", "A", "M", "E">>
NOFORTRAN == <<"N", "O", "F", "O", "R", "T", "R", "A", "N">>
CEXTRALIB == <<"C", "E", "X", "T", "R", "A", "L", "I", "B">>
FEXTRALIB == <<"F", "E", "X", "T", "R", "A", "L", "I", "B">>

\* MakeConf::default()
DefaultMakeConf ==
  [os_name |-> <<>>, no_fortran |-> FALSE,
   c_extra_libs |-> DefaultLinkInfo, f_extra_libs |-> DefaultLinkInfo]

\* A line as BufRead::lines yields it: Ok(text), or Err for bytes that are
\* not valid UTF-8.
OkLine(text) == [ok |-> TRUE, text |-> text]
ErrLine == [ok |-> FALSE, text |-> <<>>]

\* The arms of `match entry[0]`: the configuration after the line and
\* whether LinkInfo::parse panicked.
conf_match(detail, entry, fs) ==
  IF entry[1] = OSNAME
    THEN [detail |-> [detail EXCEPT !.os_name = entry[2]], panicked |-> FALSE]
  ELSE IF entry[1] = NOFORTRAN
    THEN [detail |-> [detail EXCEPT !.no_fortran = TRUE], panicked |-> FALSE]
  ELSE IF entry[1] = CEXTRALIB
    THEN LET r == LinkInfo_parse(entry[2], fs)
         IN  IF r.panicked THEN [detail |-> detail, panicked |-> TRUE]
             ELSE [detail |-> [detail EXCEPT !.c_extra_libs = r.info],
                   panicked |-> FALSE]
  ELSE IF entry[1] = FEXTRALIB
    THEN LET r == LinkInfo_parse(entry[2], fs)
         IN  IF r.panicked THEN [detail |-> detail, panicked |-> TRUE]
             ELSE [detail |-> [detail EXCEPT !.f_extra_libs = r.info],
                   panicked |-> FALSE]
  ELSE [detail |-> detail, panicked |-> FALSE]

\* Mutant: the `if entry.len() != 2 { continue; }` test is missing.
conf_line_no_len_test(detail, line, fs) ==
  IF ~line.ok THEN [detail |-> detail, panicked |-> TRUE]
  ELSE IF Len(line.text) = 0 THEN [detail |-> detail, panicked |-> FALSE]
  ELSE conf_match(detail, Split(line.text, "="), fs)

\* Mutant: a line that does not split into two parts ends the loop's work
\* (a panic) instead of being passed over.
conf_line_stops_on_malformed(detail, line, fs) ==
  IF ~line.ok THEN [detail |-> detail, panicked |-> TRUE]
  ELSE IF Len(line.text) = 0 THEN [detail |-> detail, panicked |-> FALSE]
  ELSE IF Len(Split(line.text, "=")) # 2 THEN [detail |-> detail, panicked |-> TRUE]
  ELSE conf_match(detail, Split(line.text, "="), fs)

\* The body of `for line in buf.lines()`: the configuration after the line
\* and whether the line panicked (unwrap of an Err line, or LinkInfo::parse).
conf_line(detail, line, fs) ==
  IF ~line.ok THEN [detail |-> detail, panicked |-> TRUE]
  ELSE IF Len(line.text) = 0 THEN [detail |-> detail, panicked |-> FALSE]
  ELSE IF Len(Split(line.text, "=")) # 2 THEN [detail |-> detail, panicked |-> FALSE]
  ELSE conf_match(detail, Split(line.text, "="), fs)

\* Inputs: the lines a Makefile.conf is made of.
ConfLines ==
  { OkLine(<<"O", "S", "N", "A", "M", "E", "=", "L">>),                  \* "OSNAME=L"
    OkLine(<<"N", "O", "F", "O", "R", "T", "R", "A", "N", "=", "1">>),   \* "NOFORTRAN=1"
    OkLine(<<"N", "O", "F", "O", "R", "T", "R", "A", "N", "=">>),        \* "NOFORTRAN="
    OkLine(<<"N", "O", "F", "O", "R", "T", "R", "A", "N">>),             \* "NOFORTRAN"
    OkLine(<<"N", "O", "F", "O", "R", "T", "R", "A", "N", "=", "1", "=", "2">>),
                                                                         \* "NOFORTRAN=1=2"
    OkLine(<<" ", "N", "O", "F", "O", "R", "T", "R", "A", "N", "=", "1">>),
                                                                         \* " NOFORTRAN=1"
    OkLine(<<"C", "E", "X", "T", "R", "A", "L", "I", "B", "=",
             "-", "l", "b", "a", "r", " ", "-", "L", "/", "s">>),        \* "CEXTRALIB=-lbar -L/s"
    OkLine(<<"F", "E", "X", "T", "R", "A", "L", "I", "B", "=",
             "-", "l", "f", "o", "o", " ", "-", "L", "/", "a", ".", "b">>),
                                                                         \* "FEXTRALIB=-lfoo -L/a.b"
    OkLine(<<>>),                                                        \* ""
    ErrLine }

\* A file that opens, with its lines, or one that does not open.
ConfFiles ==
  {[opens |-> TRUE, lines |-> ls] : ls \in SeqsUpTo(ConfLines, MaxConfLines)}
    \cup {[opens |-> FALSE, lines |-> <<>>]}

ConfFileSystems == {fs \in FileSystems : fs.dirs = {Dir_ab}}

\* ------------------------------------------------------------- LibDetail
S_T == <<"T">>
NEEDED == <<"N", "E", "E", "D", "E", "D">>
Cblas_ == <<"c", "b", "l", "a", "s", "_">>
Dsyev_ == <<"d", "s", "y", "e", "v", "_">>
Lapacke_ == <<"L", "A", "P", "A", "C", "K", "E", "_">>
S_lib == <<"l", "i", "b">>

RECURSIVE Insert(_, _)
Insert(x, sorted) ==
  IF sorted = <<>> THEN <<x>>
  ELSE IF StrLe(x, Head(sorted)) THEN <<x>> \o sorted
  ELSE <<Head(sorted)>> \o Insert(x, Tail(sorted))

\* Vec<String>::sort
RECURSIVE SortVec(_)
SortVec(v) == IF v = <<>> THEN <<>> ELSE Insert(Head(v), SortVec(Tail(v)))

\* The closure over one line of nm's output: what it pushes (a sequence of
\* zero or one names) and whether indexing entry[2] panicked.
symbol_line(line) ==
  IF ~line.ok THEN [push |-> <<>>, panicked |-> FALSE]
  ELSE
    LET entry == Split(Trim(line.text), " ")
    IN  IF Len(entry) # 3
        THEN IF Len(entry) < 3 THEN [push |-> <<>>, panicked |-> TRUE]
             ELSE IF entry[3] = S_T THEN [push |-> <<>>, panicked |-> FALSE]
             ELSE [push |-> <<entry[3]>>, panicked |-> FALSE]
        ELSE [push |-> <<entry[3]>>, panicked |-> FALSE]

\* Mutant: what follows the NEEDED keyword is kept untrimmed.
lib_line_untrimmed(line) ==
  IF ~line.ok THEN <<>>
  ELSE IF StartsWith(Trim(line.text), NEEDED)
       THEN <<TrimStartMatches(Trim(line.text), NEEDED)>>
       ELSE <<>>

\* The closure over one line of objdump's output.
lib_line(line) ==
  IF ~line.ok THEN <<>>
  ELSE IF StartsWith(Trim(line.text), NEEDED)
       THEN <<Trim(TrimStartMatches(Trim(line.text), NEEDED))>>
       ELSE <<>>

\* has_cblas, has_lapack, has_lapacke: the loops over self.symbols.
RECURSIVE has_cblas(_)
has_cblas(symbols) ==
  IF symbols = <<>> THEN FALSE
  ELSE IF StartsWith(Head(symbols), Cblas_) THEN TRUE
  ELSE has_cblas(Tail(symbols))

\* Mutant: a prefix test, as in has_cblas, where the exact name is meant.
RECURSIVE has_lapack_by_prefix(_)
has_lapack_by_prefix(symbols) ==
  IF symbols = <<>> THEN FALSE
  ELSE IF StartsWith(Head(symbols), Dsyev_) THEN TRUE
  ELSE has_lapack_by_prefix(Tail(symbols))

RECURSIVE has_lapack(_)
has_lapack(symbols) ==
  IF symbols = <<>> THEN FALSE
  ELSE IF Head(symbols) = Dsyev_ THEN TRUE
  ELSE has_lapack(Tail(symbols))

RECURSIVE has_lapacke(_)
has_lapacke(symbols) ==
  IF symbols = <<>> THEN FALSE
  ELSE IF StartsWith(Head(symbols), Lapacke_) THEN TRUE
  ELSE has_lapacke(Tail(symbols))

\* Mutant: the library name is tested as a prefix, not against the stem.
RECURSIVE has_lib_by_prefix(_, _)
has_lib_by_prefix(libs, name) ==
  IF libs = <<>> THEN FALSE
  ELSE IF StartsWith(Head(libs), S_lib \o name) THEN TRUE
  ELSE has_lib_by_prefix(Tail(libs), name)

\* has_lib: the loop over self.libs; lib.split(".").next() is the first part.
RECURSIVE has_lib(_, _)
has_lib(libs, name) ==
  IF libs = <<>> THEN FALSE
  ELSE IF Split(Head(libs), ".")[1] = S_lib \o name THEN TRUE
  ELSE has_lib(Tail(libs), name)

\* Inputs: lines of `nm -g` output.
NmLines ==
  { OkLine(<<"0", " ", "T", " ", "c", "b", "l", "a", "s", "_", "d", "g", "e", "m", "m">>),
                                                               \* "0 T cblas_dgemm"
    OkLine(<<"0", " ", "T", " ", "d", "s", "y", "e", "v", "_">>),        \* "0 T dsyev_"
    OkLine(<<"0", " ", "T", " ", "f", "o", "o">>),                       \* "0 T foo"
    OkLine(<<"0", " ", "D", " ", "L", "A", "P", "A", "C", "K", "E", "_", "d">>),
                                                               \* "0 D LAPACKE_d"
    OkLine(<<"0", " ", "T", " ", "d", "s", "y", "e", "v", "_", "2">>),   \* "0 T dsyev_2"
    OkLine(<<"\t", " ", "U", " ", "b", "a", "r">>),                      \* "\t U bar"
    OkLine(<<"0", " ", "W", " ", "f", "o", "o", " ", "x">>),             \* "0 W foo x"
    OkLine(<<"0", " ", " ", "T", " ", "f", "o", "o">>),                  \* "0  T foo"
    OkLine(<<>>),                                                        \* ""
    ErrLine }

NmOutputs == SeqsUpTo(NmLines, MaxNmLines)

\* Inputs: lines of `objdump -p` output.
ObjdumpLines ==
  { OkLine(<<" ", " ", "N", "E", "E", "D", "E", "D", " ", " ",
             "l", "i", "b", "m", ".", "s", "o", ".", "6">>),    \* "  NEEDED  libm.so.6"
    OkLine(<<"N", "E", "E", "D", "E", "D", " ", "l", "i", "b", "m", "v", "e", "c",
             ".", "s", "o", ".", "1", "\t">>),                  \* "NEEDED libmvec.so.1\t"
    OkLine(<<"N", "E", "E", "D", "E", "D", "N", "E", "E", "D", "E", "D", " ",
             "l", "i", "b", "m">>),                             \* "NEEDEDNEEDED libm"
    OkLine(<<" ", " ", "S", "O", "N", "A", "M", "E", " ", "N", "E", "E", "D", "E", "D">>),
                                                                \* "  SONAME NEEDED"
    ErrLine }

ObjdumpOutputs == SeqsUpTo(ObjdumpLines, MaxObjLines)

\* Names has_lib is asked about.
LibNames == { <<"m">>, <<"m", "v", "e", "c">> }    \* "m", "mvec"

\* ------------------------------------------------------------------ state
VARIABLES
  li_pc,         \* LinkInfo::parse: "call", "loop", "done", "panic"
  li_line,       \* the argument `line`
  li_fs,         \* the filesystem during the call
  li_entries,    \* what is left of line.split(" ")
  li_acc,        \* the HashSets search_paths and libs
  li_result,     \* the returned LinkInfo
  mc_pc,         \* MakeConf::new: "call", "lines", "done", "err", "panic"
  mc_file,       \* the file at `path`
  mc_fs,         \* the filesystem during the call
  mc_i,          \* lines of buf.lines() consumed
  mc_detail,     \* `detail`, returned as Ok(detail) at "done"
  ld_pc,         \* LibDetail::new: "call", "nm", "symbols", "objdump", "libs",
                 \*                 "done", "panic"
  ld_exists,     \* whether `path` exists
  ld_calls,      \* the checks and commands run so far, in order
  ld_err,        \* the panic message
  ld_nm_lines,   \* what is left of nm_out.stdout.lines()
  ld_symbols,    \* `symbols`
  ld_objdump,    \* objdump's captured stdout, as lines
  ld_obj_i,      \* lines of it consumed
  ld_libs,       \* `libs`
  ld_detail,     \* the LibDetail constructed
  ld_answer      \* the last predicate called on it, and what it returned

liVars == <<li_pc, li_line, li_fs, li_entries, li_acc, li_result>>
mcVars == <<mc_pc, mc_file, mc_fs, mc_i, mc_detail>>
ldVars == <<ld_pc, ld_exists, ld_calls, ld_err, ld_nm_lines, ld_symbols,
            ld_objdump, ld_obj_i, ld_libs, ld_detail, ld_answer>>
vars == <<liVars, mcVars, ldVars>>

EmptyFs == [dirs |-> {}, link |-> NoLink, canon_err |-> {}]
NoDetail == [libs |-> <<>>, symbols |-> <<>>]
NoAnswer == [query |-> "none", name |-> <<>>, value |-> FALSE]

\* ------------------------------------------------ LinkInfo::parse, by step
LiInit ==
  /\ li_pc = "call"
  /\ li_line \in FlagLines
  /\ li_fs \in FileSystems
  /\ li_entries = <<>>
  /\ li_acc = EmptyAcc
  /\ li_result = DefaultLinkInfo
  \* the other two operations are not running
  /\ mc_pc = "idle" /\ mc_file = [opens |-> FALSE, lines |-> <<>>]
  /\ mc_fs = EmptyFs /\ mc_i = 0 /\ mc_detail = DefaultMakeConf
  /\ ld_pc = "idle" /\ ld_exists = FALSE /\ ld_calls = <<>> /\ ld_err = "none"
  /\ ld_nm_lines = <<>> /\ ld_symbols = <<>> /\ ld_objdump = <<>> /\ ld_obj_i = 0
  /\ ld_libs = <<>> /\ ld_detail = NoDetail /\ ld_answer = NoAnswer

\* let mut search_paths, libs; line.split(" ")
LiSplit ==
  /\ li_pc = "call"
  /\ li_entries' = Split(li_line, " ")
  /\ li_acc' = EmptyAcc
  /\ li_pc' = "loop"
  /\ UNCHANGED <<li_line, li_fs, li_result, mcVars, ldVars>>

\* one iteration of `for entry in line.split(" ")`
LiEntry ==
  /\ li_pc = "loop"
  /\ li_entries # <<>>
  /\ li_acc' = parse_entry(li_acc, Head(li_entries), li_fs)
  /\ li_entries' = Tail(li_entries)
  /\ li_pc' = IF li_acc'.panicked THEN "panic" ELSE "loop"
  /\ UNCHANGED <<li_line, li_fs, li_result, mcVars, ldVars>>

\* LinkInfo { search_paths: as_sorted_vec(..), libs: as_sorted_vec(..) }
LiReturn ==
  /\ li_pc = "loop"
  /\ li_entries = <<>>
  /\ li_result' = LinkInfoOf(li_acc)
  /\ li_pc' = "done"
  /\ UNCHANGED <<li_line, li_fs, li_entries, li_acc, mcVars, ldVars>>

LiNext == LiSplit \/ LiEntry \/ LiReturn

SpecParse == LiInit /\ [][LiNext]_vars

\* --------------------------------------------------- MakeConf::new, by step
McInit ==
  /\ mc_pc = "call"
  /\ mc_file \in ConfFiles
  /\ mc_fs \in ConfFileSystems
  /\ mc_i = 0
  /\ mc_detail = DefaultMakeConf
  \* the other two operations are not running
  /\ li_pc = "idle" /\ li_line = <<>> /\ li_fs = EmptyFs
  /\ li_entries = <<>> /\ li_acc = EmptyAcc /\ li_result = DefaultLinkInfo
  /\ ld_pc = "idle" /\ ld_exists = FALSE /\ ld_calls = <<>> /\ ld_err = "none"
  /\ ld_nm_lines = <<>> /\ ld_symbols = <<>> /\ ld_objdump = <<>> /\ ld_obj_i = 0
  /\ ld_libs = <<>> /\ ld_detail = NoDetail /\ ld_answer = NoAnswer

\* MakeConf::default(); fs::File::open(path)?
McOpen ==
  /\ mc_pc = "call"
  /\ mc_pc' = IF mc_file.opens THEN "lines" ELSE "err"
  /\ mc_detail' = DefaultMakeConf
  /\ UNCHANGED <<mc_file, mc_fs, mc_i, liVars, ldVars>>

\* one iteration of `for line in buf.lines()`
McLine ==
  /\ mc_pc = "lines"
  /\ mc_i < Len(mc_file.lines)
  /\ LET r == conf_line(mc_detail, mc_file.lines[mc_i + 1], mc_fs)
     IN  /\ mc_detail' = r.detail
         /\ mc_pc' = IF r.panicked THEN "panic" ELSE "lines"
  /\ mc_i' = mc_i + 1
  /\ UNCHANGED <<mc_file, mc_fs, liVars, ldVars>>

\* Ok(detail)
McReturn ==
  /\ mc_pc = "lines"
  /\ mc_i = Len(mc_file.lines)
  /\ mc_pc' = "done"
  /\ UNCHANGED <<mc_file, mc_fs, mc_i, mc_detail, liVars, ldVars>>

McNext == McOpen \/ McLine \/ McReturn

SpecConf == McInit /\ [][McNext]_vars

\* ------------------------------------------- LibDetail::new and predicates
LdInit ==
  /\ ld_pc = "call"
  /\ ld_exists \in BOOLEAN
  /\ ld_calls = <<>>
  /\ ld_err = "none"
  /\ ld_nm_lines = <<>>
  /\ ld_symbols = <<>>
  /\ ld_objdump = <<>>
  /\ ld_obj_i = 0
  /\ ld_libs = <<>>
  /\ ld_detail = NoDetail
  /\ ld_answer = NoAnswer
  \* the other two operations are not running
  /\ li_pc = "idle" /\ li_line = <<>> /\ li_fs = EmptyFs
  /\ li_entries = <<>> /\ li_acc = EmptyAcc /\ li_result = DefaultLinkInfo
  /\ mc_pc = "idle" /\ mc_file = [opens |-> FALSE, lines |-> <<>>]
  /\ mc_fs = EmptyFs /\ mc_i = 0 /\ mc_detail = DefaultMakeConf

\* Mutant: a missing file is noticed but the function goes on.
LdCheckExists_goes_on ==
  /\ ld_pc = "call"
  /\ ld_calls' = Append(ld_calls, "exists")
  /\ ld_pc' = "nm"
  /\ UNCHANGED <<ld_err, ld_exists, ld_nm_lines, ld_symbols, ld_objdump, ld_obj_i,
                 ld_libs, ld_detail, ld_answer, liVars, mcVars>>

\* if !path.exists() { panic!("File not found: ..") }
LdCheckExists ==
  /\ ld_pc = "call"
  /\ ld_calls' = Append(ld_calls, "exists")
  /\ IF ld_exists
     THEN ld_pc' = "nm" /\ UNCHANGED ld_err
     ELSE ld_pc' = "panic" /\ ld_err' = "File not found"
  /\ UNCHANGED <<ld_exists, ld_nm_lines, ld_symbols, ld_objdump, ld_obj_i,
                 ld_libs, ld_detail, ld_answer, liVars, mcVars>>

\* Command::new("nm").arg("-g").arg(path).output().expect(..): nm runs and
\* its stdout is captured, or it cannot be started.
LdRunNm ==
  /\ ld_pc = "nm"
  /\ ld_calls' = Append(ld_calls, "nm")
  /\ \/ /\ \E out \in NmOutputs : ld_nm_lines' = out
        /\ ld_pc' = "symbols"
        /\ UNCHANGED ld_err
     \/ /\ ld_pc' = "panic"
        /\ ld_err' = "nm cannot be started"
        /\ UNCHANGED ld_nm_lines
  /\ UNCHANGED <<ld_exists, ld_symbols, ld_objdump, ld_obj_i, ld_libs,
                 ld_detail, ld_answer, liVars, mcVars>>

\* the flat_map closure on the next line of nm's output
LdSymbolLine ==
  /\ ld_pc = "symbols"
  /\ ld_nm_lines # <<>>
  /\ LET r == symbol_line(Head(ld_nm_lines))
     IN  /\ ld_symbols' = ld_symbols \o r.push
         /\ IF r.panicked
            THEN ld_pc' = "panic" /\ ld_err' = "index out of bounds"
            ELSE ld_pc' = "symbols" /\ UNCHANGED ld_err
  /\ ld_nm_lines' = Tail(ld_nm_lines)
  /\ UNCHANGED <<ld_exists, ld_calls, ld_objdump, ld_obj_i, ld_libs,
                 ld_detail, ld_answer, liVars, mcVars>>

\* .collect(); symbols.sort()
LdSortSymbols ==
  /\ ld_pc = "symbols"
  /\ ld_nm_lines = <<>>
  /\ ld_symbols' = SortVec(ld_symbols)
  /\ ld_pc' = "objdump"
  /\ UNCHANGED <<ld_exists, ld_calls, ld_err, ld_nm_lines, ld_objdump, ld_obj_i,
                 ld_libs, ld_detail, ld_answer, liVars, mcVars>>

\* Command::new("objdump").arg("-p").arg(path).output().expect(..)
LdRunObjdump ==
  /\ ld_pc = "objdump"
  /\ ld_calls' = Append(ld_calls, "objdump")
  /\ \/ /\ \E out \in ObjdumpOutputs : ld_objdump' = out
        /\ ld_pc' = "libs"
        /\ UNCHANGED ld_err
     \/ /\ ld_pc' = "panic"
        /\ ld_err' = "objdump cannot start"
        /\ UNCHANGED ld_objdump
  /\ UNCHANGED <<ld_exists, ld_nm_lines, ld_symbols, ld_obj_i, ld_libs,
                 ld_detail, ld_answer, liVars, mcVars>>

\* the flat_map closure on the next line of objdump's output
LdLibLine ==
  /\ ld_pc = "libs"
  /\ ld_obj_i < Len(ld_objdump)
  /\ ld_libs' = ld_libs \o lib_line(ld_objdump[ld_obj_i + 1])
  /\ ld_obj_i' = ld_obj_i + 1
  /\ UNCHANGED <<ld_pc, ld_exists, ld_calls, ld_err, ld_nm_lines, ld_symbols,
                 ld_objdump, ld_detail, ld_answer, liVars, mcVars>>

\* .collect(); libs.sort(); LibDetail { path, libs, symbols }
LdConstruct ==
  /\ ld_pc = "libs"
  /\ ld_obj_i = Len(ld_objdump)
  /\ ld_libs' = SortVec(ld_libs)
  /\ ld_detail' = [libs |-> ld_libs', symbols |-> ld_symbols]
  /\ ld_pc' = "done"
  /\ UNCHANGED <<ld_exists, ld_calls, ld_err, ld_nm_lines, ld_symbols,
                 ld_objdump, ld_obj_i, ld_answer, liVars, mcVars>>

Answer(query, name, value) == [query |-> query, name |-> name, value |-> value]

LdHasCblas ==
  /\ ld_pc = "done"
  /\ ld_answer' = Answer("has_cblas", <<>>, has_cblas(ld_detail.symbols))
  /\ UNCHANGED <<ld_pc, ld_exists, ld_calls, ld_err, ld_nm_lines, ld_symbols,
                 ld_objdump, ld_obj_i, ld_libs, ld_detail, liVars, mcVars>>

LdHasLapack ==
  /\ ld_pc = "done"
  /\ ld_answer' = Answer("has_lapack", <<>>, has_lapack(ld_detail.symbols))
  /\ UNCHANGED <<ld_pc, ld_exists, ld_calls, ld_err, ld_nm_lines, ld_symbols,
                 ld_objdump, ld_obj_i, ld_libs, ld_detail, liVars, mcVars>>

LdHasLapacke ==
  /\ ld_pc = "done"
  /\ ld_answer' = Answer("has_lapacke", <<>>, has_lapacke(ld_detail.symbols))
  /\ UNCHANGED <<ld_pc, ld_exists, ld_calls, ld_err, ld_nm_lines, ld_symbols,
                 ld_objdump, ld_obj_i, ld_libs, ld_detail, liVars, mcVars>>

LdHasLib ==
  /\ ld_pc = "done"
  /\ \E name \in LibNames :
       ld_answer' = Answer("has_lib", name, has_lib(ld_detail.libs, name))
  /\ UNCHANGED <<ld_pc, ld_exists, ld_calls, ld_err, ld_nm_lines, ld_symbols,
                 ld_objdump, ld_obj_i, ld_libs, ld_detail, liVars, mcVars>>

LdNext ==
  \/ LdCheckExists \/ LdRunNm \/ LdSymbolLine \/ LdSortSymbols
  \/ LdRunObjdump \/ LdLibLine \/ LdConstruct
  \/ LdHasCblas \/ LdHasLapack \/ LdHasLapacke \/ LdHasLib

SpecLib == LdInit /\ [][LdNext]_vars

\* ================================================================= claims
Range(s) == {s[i] : i \in DOMAIN s}

\* The orderings of a token list.
Reorderings(ts) ==
  {[i \in DOMAIN ts |-> ts[p[i]]] : p \in Permutations(DOMAIN ts)}

\* The tokens of the flag string being parsed, and the one the loop took last.
LiTokens == Split(li_line, " ")
LiLastEntry == LiTokens[Len(LiTokens) - Len(li_entries)]

Str_foo == <<"f", "o", "o">>
Str_bar == <<"b", "a", "r">>
Tok_lfoo == <<"-", "l", "f", "o", "o">>
Tok_lbar == <<"-", "l", "b", "a", "r">>
Tok_Lab == <<"-", "L", "/", "a", "/", "b">>
Tok_Ladotb == <<"-", "L", "/", "a", ".", "b">>
Tok_Ls == <<"-", "L", "/", "s">>

\* C3: the libs LinkInfo::parse returns are in strictly ascending order (sorted,
\* no duplicates), and parsing the same tokens in any other order, or with one
\* of the -l tokens repeated, returns the same libs.
C3_LibsSortedUniqueOrderFree ==
  li_pc = "done" =>
    /\ \A i, j \in DOMAIN li_result.libs :
         i < j => /\ StrLe(li_result.libs[i], li_result.libs[j])
                  /\ li_result.libs[i] # li_result.libs[j]
    /\ \A ts \in Reorderings(LiTokens) :
         LET r == LinkInfo_parse(Join(ts, " "), li_fs)
         IN  ~r.panicked /\ r.info.libs = li_result.libs
    /\ \A i \in DOMAIN LiTokens :
         StartsWith(LiTokens[i], DashLower) =>
           LinkInfo_parse(Join(Append(LiTokens, LiTokens[i]), " "), li_fs).info.libs
             = li_result.libs

\* C3 witness: "-lfoo -lbar -lfoo" has been parsed into libs ["bar", "foo"].
C3_Witness ==
  /\ li_pc = "done"
  /\ LiTokens = <<Tok_lfoo, Tok_lbar, Tok_lfoo>>
  /\ li_result.libs = <<Str_bar, Str_foo>>

\* The path of a -L token: what is left of the token after its -L prefix.
LPathsOf(tokens) ==
  {TrimStartMatches(tokens[i], DashL) :
     i \in {k \in DOMAIN tokens : StartsWith(tokens[k], DashL)}}

\* C4: the search_paths LinkInfo::parse returns are, in strictly ascending path
\* order, exactly the canonical forms of the -L token paths that exist; the libs
\* come from the -l tokens alone; and the call fails only on a -L token whose
\* path exists (a -L token with a missing path is dropped without error).
C4_SearchPathsExistingCanonical ==
  /\ li_pc = "done" =>
       /\ Range(li_result.search_paths) =
            {Canonicalize(li_fs, p) :
               p \in {q \in LPathsOf(LiTokens) : PathExists(li_fs, q)}}
       /\ \A i, j \in DOMAIN li_result.search_paths :
            i < j => /\ PathLe(li_result.search_paths[i], li_result.search_paths[j])
                     /\ li_result.search_paths[i] # li_result.search_paths[j]
       /\ Range(li_result.libs) =
            {TrimStartMatches(LiTokens[i], DashLower) :
               i \in {k \in DOMAIN LiTokens : StartsWith(LiTokens[k], DashLower)}}
  /\ li_pc = "panic" =>
       /\ StartsWith(LiLastEntry, DashL)
       /\ PathExists(li_fs, TrimStartMatches(LiLastEntry, DashL))

\* C4 witness: "-L/s", "-L/a/b" and "-L/a.b" were parsed where /s links to /a/b
\* and /a.b is missing: the one search path is /a/b.
C4_Witness ==
  /\ li_pc = "done"
  /\ {Tok_Ls, Tok_Lab, Tok_Ladotb} \subseteq Range(LiTokens)
  /\ li_fs.link = Dir_ab
  /\ Dir_adotb \notin li_fs.dirs
  /\ li_result.search_paths = <<Dir_ab>>

\* ------------------------------------------------------------ MakeConf::new
EqualsSigns(text) == {k \in DOMAIN text : text[k] = "="}

\* The part of a line before its first "=".
KeyOf(text) == SubSeq(text, 1, Min(EqualsSigns(text)) - 1)

\* A line that splits on "=" into exactly two parts, the first being `key`.
IsLineFor(line, key) ==
  line.ok /\ Cardinality(EqualsSigns(line.text)) = 1 /\ KeyOf(line.text) = key

Ln_osname == OkLine(<<"O", "S", "N", "A", "M", "E", "=", "L">>)
Ln_nofortran1 == OkLine(<<"N", "O", "F", "O", "R", "T", "R", "A", "N", "=", "1">>)
Ln_nofortranBlank == OkLine(<<"N", "O", "F", "O", "R", "T", "R", "A", "N", "=">>)
Ln_nofortranBare == OkLine(<<"N", "O", "F", "O", "R", "T", "R", "A", "N">>)

\* C5: the configuration MakeConf::new returns has no_fortran set (Fortran
\* disabled) exactly when some line of the file splits on "=" into two parts
\* with key NOFORTRAN, whatever the value part; otherwise Fortran is enabled.
C5_NoFortranIffKeyLine ==
  mc_pc = "done" =>
    (mc_detail.no_fortran <=>
       \E i \in DOMAIN mc_file.lines : IsLineFor(mc_file.lines[i], NOFORTRAN))

\* C5 witness: a file whose only NOFORTRAN line is "NOFORTRAN=" (empty value)
\* has been read, and Fortran is disabled.
C5_Witness ==
  /\ mc_pc = "done"
  /\ Ln_nofortranBlank \in Range(mc_file.lines)
  /\ Ln_nofortran1 \notin Range(mc_file.lines)
  /\ mc_detail.no_fortran

RecognizedKeys == {OSNAME, NOFORTRAN, CEXTRALIB, FEXTRALIB}

\* A readable line the loop passes over: empty, not exactly one "=", or a key
\* that is none of the four.
IsPassedOver(line) ==
  /\ line.ok
  /\ \/ line.text = <<>>
     \/ Cardinality(EqualsSigns(line.text)) # 1
     \/ KeyOf(line.text) \notin RecognizedKeys

\* What one loop iteration does, for each kind of line.
C9_LineEffect ==
  (mc_pc = "lines" /\ mc_i < Len(mc_file.lines)) =>
    LET line == mc_file.lines[mc_i + 1]
    IN  /\ IsPassedOver(line) =>
             mc_detail' = mc_detail /\ mc_pc' = "lines" /\ mc_i' = mc_i + 1
        /\ IsLineFor(line, OSNAME) =>
             mc_detail' = [mc_detail EXCEPT !.os_name = mc_detail'.os_name]
        /\ IsLineFor(line, NOFORTRAN) =>
             mc_detail' = [mc_detail EXCEPT !.no_fortran = mc_detail'.no_fortran]
        /\ IsLineFor(line, CEXTRALIB) =>
             mc_detail' = [mc_detail EXCEPT !.c_extra_libs = mc_detail'.c_extra_libs]
        /\ IsLineFor(line, FEXTRALIB) =>
             mc_detail' = [mc_detail EXCEPT !.f_extra_libs = mc_detail'.f_extra_libs]

\* C9: an empty line, a line without exactly one "=", and a line with an
\* unrecognized key each leave the configuration as it was and the loop goes on
\* to the next line; a line with a recognized key changes at most the one field
\* its key names.
C9_PerLineFrame == [][C9_LineEffect]_vars

\* C9 witness: "NOFORTRAN" (no "=") was passed over and the "OSNAME=L" after it
\* was still processed: os_name is set and Fortran is still enabled.
C9_Witness ==
  /\ mc_pc = "done"
  /\ mc_file.lines = <<Ln_nofortranBare, Ln_osname>>
  /\ mc_detail.os_name = <<"L">>
  /\ ~mc_detail.no_fortran

\* ---------------------------------------------------------------- LibDetail
\* The whitespace-separated fields of a line.
RECURSIVE Fields(_)
Fields(text) ==
  LET s == TrimStart(text)
      ws == {k \in DOMAIN s : IsWhitespace(s[k])}
  IN  IF s = <<>> THEN <<>>
      ELSE IF ws = {} THEN <<s>>
      ELSE <<SubSeq(s, 1, Min(ws) - 1)>> \o Fields(Drop(s, Min(ws)))

\* A line of the shape `<address> T <symbol-name>`.
IsTextSymbolLine(line) ==
  line.ok /\ Len(Fields(line.text)) = 3 /\ Fields(line.text)[2] = S_T

\* C1 (as claimed): a line of nm's output adds to the symbols only when it has
\* exactly three fields and the type marker T, and what it adds is its symbol
\* name; any other line adds nothing.
C1_OnlyTextSymbolsCollected ==
  [][(ld_pc = "symbols" /\ ld_nm_lines # <<>> /\ ld_symbols' # ld_symbols) =>
       /\ IsTextSymbolLine(Head(ld_nm_lines))
       /\ ld_symbols' = Append(ld_symbols, Fields(Head(ld_nm_lines).text)[3])]_vars

\* C2 (as claimed): a line of nm's output with fewer or more than three fields
\* is ignored: the symbols stay as they are and the next line is taken, without
\* a panic.
C2_OtherLinesIgnored ==
  [][(/\ ld_pc = "symbols" /\ ld_nm_lines # <<>>
      /\ Head(ld_nm_lines).ok
      /\ Len(Fields(Head(ld_nm_lines).text)) # 3) =>
       /\ ld_pc' = "symbols"
       /\ ld_symbols' = ld_symbols]_vars

\* The part of a name before its first ".".
Stem(lib) ==
  LET dots == {k \in DOMAIN lib : lib[k] = "."}
  IN  IF dots = {} THEN lib ELSE SubSeq(lib, 1, Min(dots) - 1)

Str_m == <<"m">>
Str_libm_so_6 == <<"l", "i", "b", "m", ".", "s", "o", ".", "6">>
Str_libmvec_so_1 == <<"l", "i", "b", "m", "v", "e", "c", ".", "s", "o", ".", "1">>

\* C6: has_lib(name) answers TRUE exactly when some entry of libs, cut at its
\* first ".", is "lib" followed by name; with no libs it answers FALSE.
C6_HasLibIffStem ==
  ld_answer.query = "has_lib" =>
    (ld_answer.value <=>
       \E i \in DOMAIN ld_detail.libs :
         Stem(ld_detail.libs[i]) = <<"l", "i", "b">> \o ld_answer.name)

\* C6 witness: with libs ["libm.so.6", "libmvec.so.1"], has_lib("m") answered
\* TRUE.
C6_Witness ==
  /\ ld_detail.libs = <<Str_libm_so_6, Str_libmvec_so_1>>
  /\ ld_answer = Answer("has_lib", Str_m, TRUE)

\* s begins with the characters p.
HasPrefix(s, p) == Len(s) >= Len(p) /\ \A k \in DOMAIN p : s[k] = p[k]

Str_cblas_dgemm == <<"c", "b", "l", "a", "s", "_", "d", "g", "e", "m", "m">>
Str_dsyev_ == <<"d", "s", "y", "e", "v", "_">>

C7_Answers ==
  /\ ld_answer.query = "has_cblas" =>
       (ld_answer.value <=>
          \E s \in Range(ld_detail.symbols) :
            HasPrefix(s, <<"c", "b", "l", "a", "s", "_">>))
  /\ ld_answer.query = "has_lapack" =>
       (ld_answer.value <=> Str_dsyev_ \in Range(ld_detail.symbols))
  /\ ld_answer.query = "has_lapacke" =>
       (ld_answer.value <=>
          \E s \in Range(ld_detail.symbols) :
            HasPrefix(s, <<"L", "A", "P", "A", "C", "K", "E", "_">>))

\* C7: has_cblas answers TRUE exactly when some symbol begins with "cblas_",
\* has_lapack exactly when the symbol "dsyev_" itself is present, has_lapacke
\* exactly when some symbol begins with "LAPACKE_"; and once the LibDetail is
\* constructed no predicate changes it.
C7_CapabilityPredicates ==
  []C7_Answers /\ [][ld_pc = "done" => ld_detail' = ld_detail]_vars

\* C7 witness: with symbols ["cblas_dgemm", "dsyev_", "foo"], has_lapacke
\* answered FALSE.
C7_Witness ==
  /\ ld_detail.symbols = <<Str_cblas_dgemm, Str_dsyev_, Str_foo>>
  /\ ld_answer = Answer("has_lapacke", <<>>, FALSE)

IsPrefixOf(s, t) == Len(s) <= Len(t) /\ SubSeq(t, 1, Len(s)) = s

\* C8: the existence check comes first, then nm, then objdump; and when the
\* path does not exist the call ends in the "File not found" panic with neither
\* command run and no LibDetail constructed.
C8_ExistsThenNmThenObjdump ==
  /\ IsPrefixOf(ld_calls, <<"exists", "nm", "objdump">>)
  /\ ~ld_exists =>
       /\ ld_calls \in {<<>>, <<"exists">>}
       /\ ld_pc \in {"call", "panic"}
       /\ ld_pc = "panic" => ld_err = "File not found"
       /\ ld_detail = NoDetail

\* C8 witness: the path did not exist and the call has panicked after the
\* existence check alone.
C8_Witness ==
  /\ ~ld_exists
  /\ ld_pc = "panic"
  /\ ld_calls = <<"exists">>

\* How often x occurs in the sequence v.
Count(v, x) == Cardinality({i \in DOMAIN v : v[i] = x})

\* The lines of objdump's output whose trimmed form begins with NEEDED.
NeededLines == {i \in DOMAIN ld_objdump :
                  ld_objdump[i].ok /\ HasPrefix(Trim(ld_objdump[i].text), NEEDED)}

\* libs is in ascending order and holds entry[i], for the NEEDED lines i, as
\* often as the lines give it, and nothing else.
LibsAreSorted(entry) ==
  /\ \A i, j \in DOMAIN ld_detail.libs :
       i < j => StrLe(ld_detail.libs[i], ld_detail.libs[j])
  /\ Len(ld_detail.libs) = Cardinality(NeededLines)
  /\ \A i \in NeededLines :
       Count(ld_detail.libs, entry[i]) =
         Cardinality({j \in NeededLines : entry[j] = entry[i]})

\* C10 (as claimed): libs is the ascending list with one entry per NEEDED line,
\* the entry being the trimmed line with the NEEDED keyword removed once and the
\* rest trimmed.
C10_EntryKeywordStrippedOnce ==
  ld_pc = "done" =>
    LibsAreSorted([i \in NeededLines |->
                     Trim(Drop(Trim(ld_objdump[i].text), Len(NEEDED)))])

\* C10 (amended): as claimed, but the entry is the trimmed line with every
\* leading repetition of NEEDED removed and the rest trimmed.
C10_EntryKeywordStrippedRepeatedly ==
  ld_pc = "done" =>
    LibsAreSorted([i \in NeededLines |->
                     Trim(TrimStartMatches(Trim(ld_objdump[i].text), NEEDED))])

Obj_m ==
  OkLine(<<" ", " ", "N", "E", "E", "D", "E", "D", " ", " ",
           "l", "i", "b", "m", ".", "s", "o", ".", "6">>)

\* C10 witness: objdump printed the same NEEDED line twice and libs holds its
\* entry twice.
C10_Witness ==
  /\ ld_pc = "done"
  /\ ld_objdump = <<Obj_m, Obj_m>>
  /\ ld_detail.libs = <<Str_libm_so_6, Str_libm_so_6>>

====
